---------------------------- MODULE Spec2Model ----------------------------
(***************************************************************************)
(* State-machine model of the option pricers of qfrm_py:                   *)
(*   src/Quanto.py        Quanto.calc_px, _calc_LT, _calc_BS, _calc_MC,    *)
(*                        _calc_FD                                         *)
(*   src/ForwardStart.py  ForwardStart.calc_px, _calc_BS, _calc_LT,        *)
(*                        _calc_MC, _calc_FD                               *)
(*                                                                         *)
(* Numbers.  Python numbers are modelled by integers.  Quantities that go  *)
(* through exp() are measured in units of ln 2, so that exp(x) is 2^x; the *)
(* contracts and step counts are chosen so that every exponent that is     *)
(* actually used in arithmetic is a natural number.  A price is a fraction *)
(* kept as numerator and denominator.                                      *)
(*                                                                         *)
(* Python values that may be of the wrong type are tagged records:         *)
(*   Num(n)  a number,  Obj  an object float() and int() reject (None,     *)
(*   'abc'), Str(cs) a string given by its characters, NonStr an object    *)
(*   without .lower().                                                     *)
(***************************************************************************)
EXTENDS Integers, Sequences, FiniteSets, TLC

\* ------------------------------------------------------------------ bounds
MaxSteps == 3
MaxPaths == 2

\* ------------------------------------------------------------ Python values
Num(n) == [tag |-> "num", val |-> n]
Obj == [tag |-> "obj", val |-> 0]
Str(cs) == [tag |-> "str", chars |-> cs]
NonStr == [tag |-> "obj", chars |-> <<>>]

\* float(x) succeeds
Floatable(x) == x.tag = "num"

\* str.lower() on the characters that occur in the model
LowerChar(c) == IF c = "C" THEN "c" ELSE IF c = "P" THEN "p" ELSE c
lower(cs) == [k \in 1..Len(cs) |-> LowerChar(cs[k])]

\* str.upper() on the method names that occur in the model
upper(m) == IF m = "lt" THEN "LT" ELSE m

\* math.exp / numpy.exp in units of ln 2
Exp(x) == 2 ^ x

Max(a, b) == IF a >= b THEN a ELSE b

RECURSIVE SumSeq(_)
SumSeq(s) == IF Len(s) = 0 THEN 0 ELSE s[1] + SumSeq(Tail(s))

\* ------------------------------------------------------- input domains
Threads == {1, 2}

Methods == {"BS", "LT", "MC", "FD", "lt", "XX"}
StepArgs == (-1)..MaxSteps
PathArgs == (-1)..MaxPaths
Seeds == {1, 2}
DegArgs == {Num(2), Obj}
VolExArgs == {3}
CorrArgs == {-1, 2}

call == Str(<<"c", "a", "l", "l">>)
put == Str(<<"p", "u", "t">>)

\* Quanto(ref=Stock(S0, vol, q), right, K, T, rf_r, frf_r)
QuantoContracts ==
  { [kind |-> "Quanto", right |-> rt, K |-> Num(6), T |-> Num(12), T_s |-> Num(0),
     S0 |-> Num(2), vol |-> Num(2), q |-> Num(1), rf_r |-> Num(3), frf_r |-> Num(f)] :
    rt \in {call, put}, f \in {0, -1} }

\* ForwardStart(T_s, ref=Stock(S0, vol, q), right, K, T, rf_r)
FSBase ==
  [kind |-> "ForwardStart", right |-> call, K |-> Num(6), T |-> Num(2), T_s |-> Num(1),
   S0 |-> Num(2), vol |-> Num(2), q |-> Num(1), rf_r |-> Num(3), frf_r |-> Num(0)]

FSRights ==
  { call, put, Str(<<"c", "a", "t">>), Str(<<"P", "u", "t">>), Str(<<"x">>),
    Str(<<>>), NonStr }

FSValues == {Num(-1), Num(0), Obj}

ForwardStartContracts ==
  { [FSBase EXCEPT !.right = rt] : rt \in FSRights }
  \cup { [FSBase EXCEPT !.K = x] : x \in FSValues }
  \cup { [FSBase EXCEPT !.T = x] : x \in FSValues }
  \cup { [FSBase EXCEPT !.T_s = x] : x \in FSValues }
  \cup { [FSBase EXCEPT !.S0 = x] : x \in FSValues }
  \cup { [FSBase EXCEPT !.vol = x] : x \in FSValues }
  \cup { [FSBase EXCEPT !.q = x] : x \in FSValues }
  \cup { [FSBase EXCEPT !.rf_r = x] : x \in FSValues }

\* ------------------------------------------------------------------ state
VARIABLES
  self,        \* self[th]: the option object thread th prices
  args,        \* args[th]: the keyword arguments of the calc_px call
  px_spec,     \* px_spec[th]: self.px_spec
  pc,          \* pc[th]: position of thread th in calc_px
  outcome,     \* outcome[th]: how the call ended
  mc,          \* mc[th]: the locals of _calc_MC
  fitLog,      \* fitLog[th]: the polyfit/polyval calls of the call, in order
  seedLog,     \* seedLog[th]: the arguments of the seed() calls of the call
  engineCalls, \* engineCalls[th]: the American(...).calc_px calls of the call
  rng          \* the state of numpy.random's process-wide generator

vars == <<self, args, px_spec, pc, outcome, mc, fitLog, seedLog, engineCalls, rng>>

\* ------------------------------------------------------------- PriceSpec
\* PriceSpec(**kwargs): a record of the keyword arguments
PriceSpec(kwargs) == kwargs

\* PriceSpec.add(**kwargs): sets the given attributes, keeps the others
add(ps, kwargs) == kwargs @@ ps

\* getattr(ps, name, default)
GetAttr(ps, name, default) == IF name \in DOMAIN ps THEN ps[name] ELSE default

HasPx(ps) == "px" \in DOMAIN ps

NoSpec == [method |-> "-"]

\* outcomes of a call
Pending == [kind |-> "pending", val |-> ""]
Returned(v) == [kind |-> "returned", val |-> v]
Raised(e) == [kind |-> "raised", val |-> e]

\* a price: a fraction, and the pricer it comes from
Px(src, num, den) == [src |-> src, num |-> num, den |-> den]


\* --------------------------------------------------- numpy.random (global)
\* The process-wide generator is modelled by a small full-period congruential
\* generator: its whole state is one number, seed() sets it, each draw
\* advances it by one step and returns its top bit (a draw of 0 or 1).
RngInit == {0, 7}

LCGNext(x) == (5 * x + 3) % 16

RECURSIVE Advance(_, _)
Advance(x, k) == IF k = 0 THEN x ELSE Advance(LCGNext(x), k - 1)

\* the k-th number (k = 0, 1, ...) drawn from generator state x
Draw(x, k) == Advance(x, k + 1) \div 8

\* numpy.random.seed(s): the generator state after seeding with s
seed(s) == s % 16

\* numpy.random.normal(loc, scale, (rows, cols)): the array is filled row by
\* row from the generator in state x; rows are indexed from 0, columns from 1
normal(x, rows, cols) ==
  [t \in 0..(rows - 1) |-> [p \in 1..cols |-> Draw(x, t * cols + (p - 1))]]

\* numpy.cumsum(Z, axis=0)[t][p]
RECURSIVE cumsum(_, _, _)
cumsum(Z, t, p) == IF t = 0 THEN Z[0][p] ELSE Z[t][p] + cumsum(Z, t - 1, p)

\* polyval(polyfit(S[i], v[i + 1] * df, deg), S[i]): the regression is numpy's
\* and its value on a path is any number.  What the code does with C[p] is
\* compare it with payout[i][p], so C[p] ranges over one value below every
\* payout (-1: exercise), the regressed value itself (the fit interpolates
\* when deg + 1 reaches the number of distinct spots), and one value above
\* both (hold).
CValues(payout_i, cont) ==
  LET cand(p) == {-1, cont[p], Max(payout_i[p], cont[p]) + 1}
      all == UNION {cand(p) : p \in DOMAIN payout_i}
  IN  {C \in [DOMAIN payout_i -> all] : \A p \in DOMAIN payout_i : C[p] \in cand(p)}

\* numpy.polyfit(x, y, deg): the error it raises, "" when it fits
polyfitError(x, deg) ==
  IF deg.tag # "num" THEN "ValueError"
  ELSE IF deg.val < 0 THEN "ValueError"
  ELSE IF Len(x) = 0 THEN "TypeError"
  ELSE ""

\* ------------------------------------------------ American lattice engine
\* American(ref=stock, right, K, T, rf_r).calc_px(method, nsteps, keep_hist):
\* the px_spec of the priced American option.  The engine is a black box: its
\* price is opaque and its result names the invocation it answers.
EngineArgs(S0, vol, q, right, K, T, rf_r, method, nsteps, keep_hist) ==
  [S0 |-> S0, vol |-> vol, q |-> q, right |-> right, K |-> K, T |-> T,
   rf_r |-> rf_r, method |-> method, nsteps |-> nsteps, keep_hist |-> keep_hist]

AmericanCalcPx(a) ==
  [method |-> a.method, nsteps |-> a.nsteps, keep_hist |-> a.keep_hist,
   sub_method |-> "binomial tree; Hull Ch.13",
   px |-> Px("American.LT", 0, 1), LT_specs |-> a]

\* ------------------------------------------------------------------ Quanto
\* the foreign numeraire dividend yield (Quanto.py 154-157 and 217-220)
foreign_numeraire_dividend_yield_wrong(correlation, vol, vol_ex, rf_r, q, frf_r) ==
  LET growth_rate_of_underlying == correlation * vol * vol_ex
      domestic_numeraire == rf_r - q
      foreign_numeraire == domestic_numeraire - growth_rate_of_underlying
  IN  frf_r - foreign_numeraire

foreign_numeraire_dividend_yield(correlation, vol, vol_ex, rf_r, q, frf_r) ==
  LET growth_rate_of_underlying == correlation * vol * vol_ex
      domestic_numeraire == rf_r - q
      foreign_numeraire == domestic_numeraire + growth_rate_of_underlying
  IN  frf_r - foreign_numeraire

\* Quanto._calc_LT: the new px_spec and the engine invocations made
Quanto_calc_LT(o, ps) ==
  LET vol_ex == ps.vol_ex
      correlation == ps.correlation
      keep_hist == GetAttr(ps, "keep_hist", FALSE)
      n == GetAttr(ps, "nsteps", 3)
      qAdj == foreign_numeraire_dividend_yield(correlation, o.vol.val, vol_ex,
                                               o.rf_r.val, o.q.val, o.frf_r.val)
      a == EngineArgs(o.S0.val, o.vol.val, qAdj, o.right, o.K.val, o.T.val,
                      o.frf_r.val, "LT", n, keep_hist)
  IN  [px_spec |-> AmericanCalcPx(a), calls |-> <<a>>, out |-> Returned("self")]

\* Quanto._calc_BS: returns self, px_spec untouched
Quanto_calc_BS(o, ps) == [px_spec |-> ps, calls |-> <<>>, out |-> Returned("self")]

\* Quanto._calc_FD: returns self, px_spec untouched
Quanto_calc_FD(o, ps) == [px_spec |-> ps, calls |-> <<>>, out |-> Returned("self")]

\* the locals of _calc_MC before the call
NoLocals ==
  [deg |-> Obj, vol_ex |-> 0, correlation |-> 0, n_steps |-> 0, n_paths |-> 0,
   qAdj |-> 0, signCP |-> 0, normalArgs |-> <<>>,
   Z |-> <<>>, S |-> <<>>, payout |-> <<>>, v |-> <<>>, i |-> 0]

\* Quanto._calc_MC, lines 205-226: the locals read from px_spec and the contract
MC_locals(o, ps) ==
  [NoLocals EXCEPT
     !.deg = ps.deg,
     !.vol_ex = ps.vol_ex,
     !.correlation = ps.correlation,
     !.n_steps = GetAttr(ps, "nsteps", 3),
     !.n_paths = GetAttr(ps, "npaths", 5000),
     !.qAdj = foreign_numeraire_dividend_yield(ps.correlation, o.vol.val, ps.vol_ex,
                                               o.rf_r.val, o.q.val, o.frf_r.val),
     !.signCP = IF lower(o.right.chars)[1] = "c" THEN 1 ELSE -1]

\* df = exp(-frf_r * dt) with dt = T / n_steps (line 225), for n_steps > 0
df(o, n_steps) == Exp(((-o.frf_r.val) * o.T.val) \div n_steps)

\* the arguments of normal() on line 229: loc and scale^2 as fractions, and size
NormalArgs(o, m) ==
  [locNum |-> (2 * (o.frf_r.val - m.qAdj) - o.vol.val * o.vol.val) * o.T.val,
   locDen |-> 2 * m.n_steps,
   scaleSqNum |-> o.vol.val * o.vol.val * o.T.val,
   scaleSqDen |-> m.n_steps,
   rows |-> m.n_steps + 1,
   cols |-> m.n_paths]

\* line 229: S = S0 * exp(cumsum(Z, axis=0)); S[0] = S0
PriceGrid(o, Z, n_steps, n_paths) ==
  [t \in 0..n_steps |->
     [p \in 1..n_paths |->
        IF t = 0 THEN o.S0.val ELSE o.S0.val * Exp(cumsum(Z, t, p))]]

\* line 230: payout = maximum(signCP * (S - K), 0)
Payout(o, S, signCP) ==
  [t \in DOMAIN S |-> [p \in DOMAIN S[t] |-> Max(signCP * (S[t][p] - o.K.val), 0)]]

\* v[i + 1] * df, and v[1] * df on line 236
discount(row, d) == [p \in DOMAIN row |-> row[p] * d]

\* line 235: where(payout[i] > C, payout[i], v[i + 1] * df)
exercise_flipped(payout_i, C, cont) ==
  [p \in DOMAIN payout_i |-> IF payout_i[p] > C[p] THEN cont[p] ELSE payout_i[p]]

exercise(payout_i, C, cont) ==
  [p \in DOMAIN payout_i |-> IF payout_i[p] > C[p] THEN payout_i[p] ELSE cont[p]]

\* line 237: float(mean(v[0])); the mean of no values is nan (0/0)
mean(row) == Px("MC", SumSeq(row), Len(row))

\* ------------------------------------------------------------ ForwardStart
\* ForwardStart._calc_BS: the new px_spec and how the call ends
ForwardStart_calc_BS(o, ps) ==
  IF o.right.tag # "str" \/ Len(o.right.chars) = 0
  THEN [px_spec |-> ps, out |-> Returned("False")]       \* lines 137-141
  ELSE IF \E x \in {o.S0, o.T, o.T_s, o.vol, o.rf_r, o.q} : ~Floatable(x)
  THEN [px_spec |-> ps, out |-> Returned("False")]       \* lines 143-153
  ELSE
    LET right == lower(o.right.chars)[1]
        S0 == o.S0.val
        T == o.T.val
        T_s == o.T_s.val
        vol == o.vol.val
        r == o.rf_r.val
        q == o.q.val
        K == IF Floatable(o.K) THEN o.K.val ELSE S0        \* lines 155-158
    IN  IF ~(right \in {"c", "p"}) \/ ~(vol >= 0) \/ ~(T > 0) \/ ~(T_s >= 0)
           \/ ~(S0 >= 0) \/ ~(K >= 0) \/ ~(r >= 0) \/ ~(q >= 0)
        THEN [px_spec |-> ps, out |-> Raised("AssertionError")]   \* lines 160-167
        ELSE IF K = 0
        THEN [px_spec |-> ps, out |-> Raised("ZeroDivisionError")] \* S0/K, line 173
        ELSE IF S0 = 0
        THEN [px_spec |-> ps, out |-> Raised("ValueError")]        \* log(0), line 173
        ELSE IF vol = 0
        THEN [px_spec |-> ps, out |-> Raised("ZeroDivisionError")] \* /(vol*sqrt(T))
        ELSE [px_spec |-> add(ps, [px |-> Px("BS", 0, 1), method |-> "BS"]),
              out |-> Returned("self")]                            \* lines 178-184

\* ForwardStart._calc_LT: returns self, px_spec untouched
ForwardStart_calc_LT(o, ps) == [px_spec |-> ps, out |-> Returned("self")]

\* ForwardStart._calc_FD: returns self, px_spec untouched
ForwardStart_calc_FD(o, ps) == [px_spec |-> ps, out |-> Returned("self")]

\* ForwardStart._calc_MC: its first statement reads names that are not defined
ForwardStart_calc_MC(o, ps) == [px_spec |-> ps, out |-> Raised("NameError")]

\* ------------------------------------------------------------------- Init
Contracts == QuantoContracts \cup ForwardStartContracts

InitWith(objs, rngs) ==
  /\ self \in [Threads -> objs]
  /\ args = [th \in Threads |-> <<>>]
  /\ px_spec = [th \in Threads |-> NoSpec]
  /\ pc = [th \in Threads |-> "idle"]
  /\ outcome = [th \in Threads |-> Pending]
  /\ mc = [th \in Threads |-> NoLocals]
  /\ fitLog = [th \in Threads |-> <<>>]
  /\ seedLog = [th \in Threads |-> <<>>]
  /\ engineCalls = [th \in Threads |-> <<>>]
  /\ rng \in rngs

\* one caller: thread 1 prices an option, thread 2 never runs
Init == InitWith(Contracts, RngInit) /\ self[2] = self[1]

\* ---------------------------------------------------------------- actions
\* how a call that does not enter the simulation ends
Finish(th, kwargs, r, calls) ==
  /\ args' = [args EXCEPT ![th] = kwargs]
  /\ px_spec' = [px_spec EXCEPT ![th] = r.px_spec]
  /\ outcome' = [outcome EXCEPT ![th] = r.out]
  /\ engineCalls' = [engineCalls EXCEPT ![th] = calls]
  /\ pc' = [pc EXCEPT ![th] = "done"]
  /\ UNCHANGED <<self, mc, fitLog, seedLog, rng>>

\* Quanto.calc_px(method, nsteps, npaths, keep_hist, vol_ex, correlation, seed, deg)
\* up to the seeding of the generator (lines 132-134, and 205-226 for 'MC')
Quanto_calc_px(th, method, nsteps, npaths, keep_hist, vol_ex, correlation, seedArg, deg) ==
  /\ pc[th] = "idle"
  /\ self[th].kind = "Quanto"
  /\ LET o == self[th]
         kwargs == [method |-> method, nsteps |-> nsteps, npaths |-> npaths,
                    keep_hist |-> keep_hist, vol_ex |-> vol_ex,
                    correlation |-> correlation, seed |-> seedArg, deg |-> deg]
         ps == PriceSpec([method |-> method, nsteps |-> nsteps, npaths |-> npaths,
                          keep_hist |-> keep_hist, vol_ex |-> vol_ex,
                          correlation |-> correlation, seed |-> 1, deg |-> deg])
         m == upper(method)
     IN  CASE m = "BS" -> Finish(th, kwargs, Quanto_calc_BS(o, ps), <<>>)
           [] m = "FD" -> Finish(th, kwargs, Quanto_calc_FD(o, ps), <<>>)
           [] m = "LT" -> Finish(th, kwargs, Quanto_calc_LT(o, ps), Quanto_calc_LT(o, ps).calls)
           [] m = "MC" ->
                IF GetAttr(ps, "nsteps", 3) = 0
                THEN \* dt = T / n_steps (line 225)
                     /\ Finish(th, kwargs, [px_spec |-> ps, out |-> Raised("ZeroDivisionError")], <<>>)
                ELSE /\ args' = [args EXCEPT ![th] = kwargs]
                     /\ px_spec' = [px_spec EXCEPT ![th] = ps]
                     /\ mc' = [mc EXCEPT ![th] = MC_locals(o, ps)]
                     /\ pc' = [pc EXCEPT ![th] = "seed"]
                     /\ UNCHANGED <<self, outcome, fitLog, seedLog, engineCalls, rng>>
           [] OTHER -> \* getattr(self, '_calc_XX'), line 134
                Finish(th, kwargs, [px_spec |-> ps, out |-> Raised("AttributeError")], <<>>)

\* Quanto._calc_MC line 228: seed(_.px_spec.seed)
MC_seed(th) ==
  /\ pc[th] = "seed"
  /\ rng' = seed(px_spec[th].seed)
  /\ seedLog' = [seedLog EXCEPT ![th] = Append(@, px_spec[th].seed)]
  /\ pc' = [pc EXCEPT ![th] = "simulate"]
  /\ UNCHANGED <<self, args, px_spec, outcome, mc, fitLog, engineCalls>>

\* Quanto._calc_MC lines 229-230: the draws, the price grid, the payouts
MC_simulate(th) ==
  /\ pc[th] = "simulate"
  /\ LET o == self[th]
         m == mc[th]
         na == NormalArgs(o, m)
     IN  IF m.n_steps < 0 \/ m.n_paths < 0
         THEN \* sqrt(dt) of a negative dt; normal() with a negative dimension
              /\ outcome' = [outcome EXCEPT ![th] = Raised("ValueError")]
              /\ pc' = [pc EXCEPT ![th] = "done"]
              /\ UNCHANGED <<mc, rng>>
         ELSE LET Z == normal(rng, na.rows, na.cols)
                  S == PriceGrid(o, Z, m.n_steps, m.n_paths)
                  payout == Payout(o, S, m.signCP)
              IN  /\ rng' = Advance(rng, na.rows * na.cols)
                  /\ mc' = [mc EXCEPT ![th].normalArgs = na, ![th].Z = Z, ![th].S = S,
                                      ![th].payout = payout, ![th].v = payout,
                                      ![th].i = m.n_steps - 1]
                  /\ pc' = [pc EXCEPT ![th] = "induction"]
                  /\ UNCHANGED outcome
  /\ UNCHANGED <<self, args, px_spec, fitLog, seedLog, engineCalls>>

\* Quanto._calc_MC lines 232-235: one pass of the loop body, for i = mc[th].i
MC_induction(th) ==
  /\ pc[th] = "induction"
  /\ mc[th].i >= 1
  /\ LET o == self[th]
         m == mc[th]
         i == m.i
         cont == discount(m.v[i + 1], df(o, m.n_steps))
         err == polyfitError(m.S[i], m.deg)
     IN  IF err # ""
         THEN /\ outcome' = [outcome EXCEPT ![th] = Raised(err)]
              /\ pc' = [pc EXCEPT ![th] = "done"]
              /\ UNCHANGED <<mc, fitLog>>
         ELSE \E C \in CValues(m.payout[i], cont) :
              /\ fitLog' = [fitLog EXCEPT ![th] =
                              Append(@, [t |-> i, deg |-> m.deg, y |-> cont, C |-> C])]
              /\ mc' = [mc EXCEPT ![th].v[i] = exercise(m.payout[i], C, cont),
                                  ![th].i = i - 1]
              /\ UNCHANGED <<outcome, pc>>
  /\ UNCHANGED <<self, args, px_spec, seedLog, engineCalls, rng>>

\* Quanto._calc_MC lines 236-239: v[0], the price, return self
MC_price(th) ==
  /\ pc[th] = "induction"
  /\ mc[th].i < 1
  /\ LET o == self[th]
         m == mc[th]
         v0 == discount(m.v[1], df(o, m.n_steps))
     IN  /\ mc' = [mc EXCEPT ![th].v[0] = v0]
         /\ px_spec' = [px_spec EXCEPT ![th] = add(@, [px |-> mean(v0)])]
  /\ outcome' = [outcome EXCEPT ![th] = Returned("self")]
  /\ pc' = [pc EXCEPT ![th] = "done"]
  /\ UNCHANGED <<self, args, fitLog, seedLog, engineCalls, rng>>

\* ForwardStart.calc_px(method, nsteps, npaths, keep_hist), lines 119-120
ForwardStart_calc_px(th, method, nsteps, npaths, keep_hist) ==
  /\ pc[th] = "idle"
  /\ self[th].kind = "ForwardStart"
  /\ LET o == self[th]
         kwargs == [method |-> method, nsteps |-> nsteps, npaths |-> npaths,
                    keep_hist |-> keep_hist]
         ps == PriceSpec(kwargs)
         m == upper(method)
     IN  CASE m = "BS" -> Finish(th, kwargs, ForwardStart_calc_BS(o, ps), <<>>)
           [] m = "LT" -> Finish(th, kwargs, ForwardStart_calc_LT(o, ps), <<>>)
           [] m = "MC" -> Finish(th, kwargs, ForwardStart_calc_MC(o, ps), <<>>)
           [] m = "FD" -> Finish(th, kwargs, ForwardStart_calc_FD(o, ps), <<>>)
           [] OTHER -> Finish(th, kwargs, [px_spec |-> ps, out |-> Raised("AttributeError")], <<>>)

\* ------------------------------------------------------------ specifications
QuantoCall(th) ==
  /\ pc[th] = "idle"
  /\ self[th].kind = "Quanto"
  /\ \E method \in Methods, nsteps \in StepArgs, npaths \in PathArgs, keep_hist \in BOOLEAN,
     vol_ex \in VolExArgs, correlation \in CorrArgs, seedArg \in Seeds, deg \in DegArgs :
    Quanto_calc_px(th, method, nsteps, npaths, keep_hist, vol_ex, correlation, seedArg, deg)

ForwardStartCall(th) ==
  /\ pc[th] = "idle"
  /\ self[th].kind = "ForwardStart"
  /\ \E method \in Methods, nsteps \in StepArgs, npaths \in PathArgs, keep_hist \in BOOLEAN :
    ForwardStart_calc_px(th, method, nsteps, npaths, keep_hist)

Next ==
  \/ QuantoCall(1)
  \/ ForwardStartCall(1)
  \/ MC_seed(1)
  \/ MC_simulate(1)
  \/ MC_induction(1)
  \/ MC_price(1)

Spec == Init /\ [][Next]_vars

\* two callers pricing Quanto options by Monte Carlo at the same time; numpy
\* runs seed() and normal() each as one step, the threads interleave between
ConcContracts == { o \in QuantoContracts : o.frf_r.val = -1 }
ConcSteps == {1, 2}
ConcPaths == {1, 2}

InitConc == InitWith(ConcContracts, {0})

ConcCall(th) ==
  /\ pc[th] = "idle"
  /\ \E nsteps \in ConcSteps, npaths \in ConcPaths, seedArg \in Seeds :
       Quanto_calc_px(th, "MC", nsteps, npaths, FALSE, 3, 2, seedArg, Num(2))

NextConc ==
  \E th \in Threads :
    \/ ConcCall(th)
    \/ MC_seed(th)
    \/ MC_simulate(th)
    \/ MC_induction(th)
    \/ MC_price(th)

SpecConc == InitConc /\ [][NextConc]_vars

\* ------------------------------------------------------------------ claims
IsQuanto(th, m) ==
  pc[th] # "idle" /\ self[th].kind = "Quanto" /\ upper(args[th].method) = m

IsForwardStart(th, m) ==
  pc[th] # "idle" /\ self[th].kind = "ForwardStart" /\ upper(args[th].method) = m

Ended(th) == pc[th] = "done"

Priced(th) == Ended(th) /\ outcome[th] = Returned("self") /\ HasPx(px_spec[th])

\* C1: in Quanto Monte Carlo pricing the seed recorded in the price result and
\* the seed given to the generator are both the seed the caller passed.
C1_SeedIsCallerSeed ==
  \A th \in Threads :
    (IsQuanto(th, "MC") /\ seedLog[th] # <<>>) =>
      /\ px_spec[th].seed = args[th].seed
      /\ seedLog[th] = <<args[th].seed>>

\* C2: whatever the interleaving of two concurrent Monte Carlo calls, each call
\* draws the paths it draws when it runs alone with the same inputs and seed.
C2_DrawsAsWhenAlone ==
  \A th \in Threads :
    (IsQuanto(th, "MC") /\ pc[th] \in {"induction", "done"} /\ seedLog[th] # <<>>) =>
      LET m == mc[th]
          alone == normal(seed(seedLog[th][1]), m.n_steps + 1, m.n_paths)
      IN  /\ m.Z = alone
          /\ m.S = PriceGrid(self[th], alone, m.n_steps, m.n_paths)

\* C3: a Quanto Monte Carlo call with n_steps <= 0 or n_paths <= 0 is rejected
\* with an error before any simulation step: the generator is never seeded, no
\* path is drawn, no price is recorded.
C3_RejectedBeforeSimulation ==
  \A th \in Threads :
    (IsQuanto(th, "MC") /\ (args[th].nsteps <= 0 \/ args[th].npaths <= 0)) =>
      /\ seedLog[th] = <<>>
      /\ mc[th].Z = <<>>
      /\ ~HasPx(px_spec[th])
      /\ Ended(th) => outcome[th].kind = "raised"

\* C4: ForwardStart.calc_px with a method that has no implementation ('MC', 'FD',
\* 'LT', an unknown name) ends with an error, never with a normal return that
\* leaves the price result without a price.
C4_UnsupportedMethodFails ==
  \A th \in Threads :
    (pc[th] = "done" /\ self[th].kind = "ForwardStart" /\ upper(args[th].method) # "BS") =>
      outcome[th].kind = "raised"

\* C5: every calc_px call ends either by returning the option with a price
\* recorded in px_spec, or by raising an error.
C5_PriceOrError ==
  \A th \in Threads :
    Ended(th) => (Priced(th) \/ outcome[th].kind = "raised")

\* C6: the forward-start analytic pricer raises an error and records no price
\* whenever right is not call or put, or a numeric field is not a number, or
\* vol < 0, T <= 0, T_s < 0, S0 < 0, K < 0, r < 0 or q < 0.
IsCallOrPut(right) ==
  right.tag = "str" /\ lower(right.chars) \in {call.chars, put.chars}

Negative(x) == x.tag = "num" /\ x.val < 0

InvalidForwardStart(o) ==
  \/ ~IsCallOrPut(o.right)
  \/ \E x \in {o.S0, o.T, o.T_s, o.vol, o.rf_r, o.q} : ~Floatable(x)
  \/ Negative(o.vol) \/ Negative(o.T_s) \/ Negative(o.S0) \/ Negative(o.K)
  \/ Negative(o.rf_r) \/ Negative(o.q)
  \/ (o.T.tag = "num" /\ o.T.val <= 0)

C6_InvalidContractRaises ==
  \A th \in Threads :
    (IsForwardStart(th, "BS") /\ Ended(th) /\ InvalidForwardStart(self[th])) =>
      /\ outcome[th].kind = "raised"
      /\ ~HasPx(px_spec[th])

\* C7: Quanto lattice pricing computes q' = r_f - (r - q + rho*sigma*sigma_fx),
\* invokes the American lattice engine exactly once with S0, sigma, q', the same
\* right, K and T, rate r_f and the caller's step count and history flag, and
\* the option's price result is the price result the engine returned.
C7_LatticeDelegation ==
  \A th \in Threads :
    (IsQuanto(th, "LT") /\ Ended(th)) =>
      LET o == self[th]
          a == args[th]
          qq == o.frf_r.val - (o.rf_r.val - o.q.val + a.correlation * o.vol.val * a.vol_ex)
      IN  /\ engineCalls[th] =
               << [S0 |-> o.S0.val, vol |-> o.vol.val, q |-> qq, right |-> o.right,
                   K |-> o.K.val, T |-> o.T.val, rf_r |-> o.frf_r.val, method |-> "LT",
                   nsteps |-> a.nsteps, keep_hist |-> a.keep_hist] >>
          /\ px_spec[th] = AmericanCalcPx(engineCalls[th][1])
          /\ outcome[th] = Returned("self")

C7_Witness ==
  \E th \in Threads :
    /\ IsQuanto(th, "LT") /\ Ended(th)
    /\ args[th].correlation * args[th].vol_ex # 0
    /\ args[th].keep_hist
    /\ Len(engineCalls[th]) = 1
    /\ HasPx(px_spec[th])

\* C8: a regression degree that cannot be coerced to an integer falls back to
\* degree 5: every fit of the call uses degree 5 and the call yields a price.
C8_DegreeFallback ==
  \A th \in Threads :
    (IsQuanto(th, "MC") /\ args[th].nsteps >= 1 /\ args[th].npaths >= 1
       /\ args[th].deg.tag # "num") =>
      /\ \A k \in 1..Len(fitLog[th]) : fitLog[th][k].deg = Num(5)
      /\ Ended(th) => Priced(th)

\* C9: LSM backward induction.  value[n_steps,p] = payout[n_steps,p]; the steps
\* are processed in the order t = n_steps-1 down to 1, step t reading the final
\* value[t+1,.]; value[t,p] = payout[t,p] if payout[t,p] > C_t[p] and
\* value[t+1,p]*df otherwise; value[0,p] = value[1,p]*df, so that value[0,p] =
\* payout[tau,p]*df^tau for an exercise step tau in 1..n_steps; for n_steps = 1
\* the loop body never runs and value[0,p] = payout[1,p]*df.
C9_BackwardInduction ==
  \A th \in Threads :
    (IsQuanto(th, "MC") /\ mc[th].n_steps >= 1
       /\ (pc[th] = "induction" \/ Priced(th))) =>
      LET m == mc[th]
          n == m.n_steps
          P == 1..m.n_paths
          log == fitLog[th]
          d == 2 ^ (((-self[th].frf_r.val) * self[th].T.val) \div n)
      IN  /\ \A p \in P : m.v[n][p] = m.payout[n][p]
          /\ Len(log) <= n - 1
          /\ pc[th] = "induction" => m.i = n - 1 - Len(log)
          /\ \A k \in 1..Len(log) :
               LET t == log[k].t IN
               /\ t = n - k
               /\ \A p \in P :
                    /\ log[k].y[p] = m.v[t + 1][p] * d
                    /\ m.v[t][p] = IF m.payout[t][p] > log[k].C[p]
                                   THEN m.payout[t][p]
                                   ELSE m.v[t + 1][p] * d
          /\ Priced(th) =>
               /\ Len(log) = n - 1
               /\ \A p \in P :
                    /\ m.v[0][p] = m.v[1][p] * d
                    /\ \E tau \in 1..n : m.v[0][p] = m.payout[tau][p] * (d ^ tau)
               /\ n = 1 => (log = <<>> /\ \A p \in P : m.v[0][p] = m.payout[1][p] * d)
               /\ px_spec[th].px = [src |-> "MC", num |-> SumSeq(m.v[0]), den |-> m.n_paths]

C9_Witness ==
  \E th \in Threads :
    /\ IsQuanto(th, "MC") /\ Priced(th)
    /\ mc[th].n_steps = 3 /\ mc[th].n_paths = 2
    /\ self[th].frf_r.val # 0
    /\ Len(fitLog[th]) = 2
    /\ \E p, r \in 1..2 :
         /\ mc[th].payout[1][p] > fitLog[th][2].C[p]
         /\ mc[th].v[0][p] > 0
         /\ ~(mc[th].payout[1][r] > fitLog[th][2].C[r])
         /\ ~(mc[th].payout[2][r] > fitLog[th][1].C[r])
         /\ mc[th].v[0][r] > 0

\* C10: every simulated path starts at the spot and advances by exactly one
\* random increment per time step: S[0,p] = S0 and ln(S[t,p]/S[t-1,p]) is the
\* single draw of step t, so that ln(S[t,p]/S0) is the sum of t draws.
C10_OneIncrementPerStep ==
  \A th \in Threads :
    (IsQuanto(th, "MC") /\ pc[th] \in {"induction", "done"} /\ DOMAIN mc[th].S # {}) =>
      LET m == mc[th] IN
      \A p \in 1..m.n_paths :
        /\ m.S[0][p] = self[th].S0.val
        /\ \A t \in 1..m.n_steps : m.S[t][p] = m.S[t - 1][p] * (2 ^ m.Z[t][p])

=============================================================================
